---- MODULE Spec2Model ----
(***************************************************************************)
(* A model of tss-esapi's Context (src/src/lib.rs): the wrapper around an   *)
(* ESYS_CONTEXT and its TCTI context, the session triple, the set of open   *)
(* object handles, every command method and the Drop implementation.        *)
(*                                                                         *)
(* The TPM software stack is a black box: every foreign call returns a      *)
(* TSS2_RC chosen nondeterministically and, on success, handles chosen      *)
(* nondeterministically.  Each method of Context is one action; the foreign *)
(* calls a method made are recorded, in order, in `calls`, and the value it *)
(* returned in `result`.                                                    *)
(***************************************************************************)
EXTENDS Integers, Sequences, FiniteSets, TLC

\* Bounds of the model.
MaxHandle == 2
MaxRc == 2
MaxLen == 2
MaxThreads == 3

\* ESYS_TR_NONE of the ESAPI bindings (0xfff).
ESYS_TR_NONE == 4095

\* Capacities of the TPM2B_* records the methods marshal into.
NONCE_SIZE == 64
AUTH_SIZE == 64
SENSITIVE_DATA_SIZE == 256
DATA_SIZE == 64
DIGEST_SIZE == 64
MAX_BUFFER_SIZE == 1024
PCR_SELECTION_MAX == 16
U16_MAX == 65535

\* The slices given to wrap_buffer! on its own: every sequence of up to
\* MaxLen bytes drawn from ByteSamples (zero, the padding byte, among them),
\* and slices that fill or overflow the capacities the methods use.
ByteSamples == {0, 1, 255}
\* The client threads that share one Context.
Threads == 1..MaxThreads

\* Object handles the engine may hand out, and every ESYS_TR value.
Handles == 1..MaxHandle
EsysTr == Handles \cup {ESYS_TR_NONE}
\* TSS2_RC values: 0 is TSS2_RC_SUCCESS.
TssRc == 0..MaxRc
\* Handle arguments a method only passes through to the engine: an object
\* handle and no handle.
HandleArgs == {1, ESYS_TR_NONE}
\* Arguments of set_sessions: each slot a session handle or none.
SessionTriples ==
    {<<a, b, c>> : a \in HandleArgs, b \in HandleArgs, c \in HandleArgs}

\* Caller data of n bytes, none of them zero.
Bytes(n) == SubSeq([i \in 1..n |-> (i % 255) + 1], 1, n)

RECURSIVE SeqsUpTo(_)
SeqsUpTo(n) ==
    IF n = 0 THEN {<<>>}
    ELSE LET shorter == SeqsUpTo(n - 1)
         IN shorter \cup {Append(s, b) : s \in {t \in shorter : Len(t) = n - 1},
                                        b \in ByteSamples}

MarshalCapacities ==
    (1..MaxLen) \cup {NONCE_SIZE, SENSITIVE_DATA_SIZE, MAX_BUFFER_SIZE}
MarshalInputs ==
    SeqsUpTo(MaxLen + 1)
       \cup {Bytes(n) : n \in {NONCE_SIZE, NONCE_SIZE + 1, SENSITIVE_DATA_SIZE,
                               SENSITIVE_DATA_SIZE + 1, MAX_BUFFER_SIZE,
                               MAX_BUFFER_SIZE + 1}}

\* Caller slices for a field of capacity cap: empty, full, one too long.
NonceInputs == {Bytes(0), Bytes(NONCE_SIZE), Bytes(NONCE_SIZE + 1)}
AuthInputs == {Bytes(0), Bytes(AUTH_SIZE), Bytes(AUTH_SIZE + 1)}
DataInputs == {Bytes(0), Bytes(DATA_SIZE), Bytes(DATA_SIZE + 1)}
DigestInputs == {Bytes(0), Bytes(DIGEST_SIZE), Bytes(DIGEST_SIZE + 1)}
MaxBufferInputs == {Bytes(0), Bytes(MAX_BUFFER_SIZE), Bytes(MAX_BUFFER_SIZE + 1)}
NumBytesInputs == {0, 1, U16_MAX, U16_MAX + 1}

\* Arguments of create_primary_key and create_key: every slice empty, every
\* slice at its limit, the empty auth value with 16 PCR selections, and each
\* of these with exactly one slice one element over its limit.
CreateInputs ==
    LET lo == [auth_value |-> Bytes(0), initial_data |-> Bytes(0),
               outside_info |-> Bytes(0), creation_pcrs |-> Bytes(0)]
        hi == [auth_value |-> Bytes(AUTH_SIZE),
               initial_data |-> Bytes(SENSITIVE_DATA_SIZE),
               outside_info |-> Bytes(DATA_SIZE),
               creation_pcrs |-> Bytes(PCR_SELECTION_MAX)]
        over(r) == {[r EXCEPT !.auth_value = Bytes(AUTH_SIZE + 1)],
                    [r EXCEPT !.initial_data = Bytes(SENSITIVE_DATA_SIZE + 1)],
                    [r EXCEPT !.outside_info = Bytes(DATA_SIZE + 1)],
                    [r EXCEPT !.creation_pcrs = Bytes(PCR_SELECTION_MAX + 1)]}
    IN {lo, hi, [lo EXCEPT !.creation_pcrs = Bytes(PCR_SELECTION_MAX)]}
           \cup over(lo) \cup over(hi)

\* The sizes create_primary_key and create_key are called with: the lengths
\* of auth_value, initial_data and outside_info and the number of PCR
\* selections.
SizesOf(in) ==
    <<Len(in.auth_value), Len(in.initial_data), Len(in.outside_info),
      Len(in.creation_pcrs)>>

VARIABLES
    phase,          \* "none" | "live" | "new_failed" | "dropped": the Context value's life
    esys_context,   \* Context.esys_context: "Some" | "None"
    tcti_context,   \* Context.tcti_context: "Some" | "None"
    sessions,       \* Context.sessions
    open_handles,   \* Context.open_handles
    esys_res,       \* the foreign ESYS_CONTEXT: "uninit" | "live" | "finalized"
    tcti_res,       \* the foreign TSS2_TCTI_CONTEXT: "uninit" | "live" | "finalized" | "freed"
    calls,          \* the foreign calls made by the last operation, in order
    result,         \* what the last operation returned
    issued,         \* history: handles returned by a successful allocating call
                    \* and not since flushed successfully
    pattern,        \* history: the shape of the commands issued so far,
                    \* "none" | "fresh" | "allocating" | "flushing" | "other"
    input,          \* the size arguments the last operation was called with:
                    \* the lengths of its slices, its count, or the triple
                    \* given to set_sessions (<<>> when it has none)
    last_set,       \* history: the triple last given to set_sessions
    finalized,      \* history: how often each finalizer has been called
    buffers,        \* the engine-owned output buffers of the last operation:
                    \* those the engine allocated, those the wrapper took
                    \* into an MBox, and those freed before it returned
    reinserted,     \* history: the last operation returned a handle that
                    \* was open already
    marshalled,     \* one use of wrap_buffer! on its own: the slice and the
                    \* capacity it is given, and what it yields
    in_progress     \* for each client thread, the method of the Context it
                    \* is executing and how far it has got

vars == <<phase, esys_context, tcti_context, sessions, open_handles,
          esys_res, tcti_res, calls, result, issued, pattern, input,
          last_set, finalized, buffers, reinserted, marshalled, in_progress>>

lifecycle == <<phase, esys_context, tcti_context, esys_res, tcti_res>>

----------------------------------------------------------------------------
\* Methods of a Context shared by several client threads.

\* The methods that take the Context by reference.
Methods ==
    {"start_auth_session", "set_sessions", "sessions", "create_primary_key",
     "create_key", "load", "sign", "verify_signature", "load_external",
     "load_external_public", "read_public", "flush_context", "context_save",
     "context_load", "pcr_read", "quote", "policy_pcr", "get_random",
     "test_parms", "hash", "policy_get_digest", "tr_set_auth", "tr_get_name",
     "tr_sess_set_attributes", "tr_sess_get_attributes"}

\* The methods that make no foreign call.
Accessors == {"set_sessions", "sessions"}

\* A faulty variant of receiver: every method takes &self.
receiver_shared(op) == "&self"

\* The receiver in the signature of a method.
receiver(op) == IF op = "sessions" THEN "&self" ELSE "&mut self"

Idle == [op |-> "idle", at |-> "idle"]

\* Thread t can obtain the reference the method `op` takes: a &mut Context
\* only while no other reference to the Context is in use, a &Context only
\* while no &mut Context is.
CanBorrow(t, op) ==
    \A u \in Threads \ {t} :
       \/ in_progress[u] = Idle
       \/ receiver(op) = "&self" /\ receiver(in_progress[u].op) = "&self"

----------------------------------------------------------------------------
\* Status translation and results.

\* Error::from_tss_rc(ret).is_success()
is_success(rc) == rc = 0

\* Ok(value)
Ok(op, value) ==
    [op |-> op, ok |-> TRUE, err |-> "None", rc |-> 0, value |-> value]

\* Err(ret): the Tss2ResponseCode carrying the raw code
TssErr(op, rc) ==
    [op |-> op, ok |-> FALSE, err |-> "Tss2ResponseCode", rc |-> rc,
     value |-> ESYS_TR_NONE]

\* Err(Error::local_error(ErrorKind::WrongParamSize))
WrongParamSize(op) ==
    [op |-> op, ok |-> FALSE, err |-> "WrongParamSize", rc |-> 0,
     value |-> ESYS_TR_NONE]

\* An error propagated by `?` from a conversion (TryFrom / TryInto)
ConversionErr(op) ==
    [op |-> op, ok |-> FALSE, err |-> "Conversion", rc |-> 0,
     value |-> ESYS_TR_NONE]

\* Faulty variants of wrap_buffer_fails: one that accepts every length, and
\* one that rejects a slice that fills its field exactly.
wrap_buffer_fails_never(buf, buf_size) == FALSE

wrap_buffer_fails_at_capacity(buf, buf_size) == Len(buf) >= buf_size

\* wrap_buffer!, lines 139-141: the early return
wrap_buffer_fails(buf, buf_size) == Len(buf) > buf_size

\* A faulty variant of wrap_buffer that starts from an array that is not
\* zeroed.
wrap_buffer_dirty(buf, buf_size) ==
    [size |-> Len(buf),
     buffer |-> [i \in 1..buf_size |-> IF i <= Len(buf) THEN buf[i] ELSE 255]]

\* wrap_buffer!, lines 142-147: the record built from the slice
wrap_buffer(buf, buf_size) ==
    [size |-> Len(buf),
     buffer |-> [i \in 1..buf_size |-> IF i <= Len(buf) THEN buf[i] ELSE 0]]

\* self.mut_context(): the raw pointer, or a panic when esys_context is None
mut_context == IF esys_context = "Some" THEN "esys_ptr" ELSE "panic"

\* One foreign call: the entry point, the context pointer handed to it, its
\* first handle argument (ESYS_TR_NONE when it has none), the three session
\* handles handed to it (<<>> when it takes none), the size fields of the
\* marshalled records and counts handed to it, and the status it returned.
ForeignCallWith(fn, ctx, handle, sess, sizes, rc) ==
    [fn |-> fn, ctx |-> ctx, handle |-> handle, sessions |-> sess,
     sizes |-> sizes, rc |-> rc]

ForeignCall(fn, ctx, handle, sess, rc) ==
    ForeignCallWith(fn, ctx, handle, sess, <<>>, rc)

NoSessions == <<>>

----------------------------------------------------------------------------
\* History of the registry, read off the results and the foreign calls only.

AllocOps == {"start_auth_session", "create_primary_key", "load",
             "load_external", "load_external_public", "context_load"}

FlushedOk(cs) ==
    {cs[i].handle : i \in {j \in 1..Len(cs) :
                             cs[j].fn = "Esys_FlushContext" /\ cs[j].rc = 0}}

Returned(res) == IF res.ok /\ res.op \in AllocOps THEN {res.value} ELSE {}

\* The shape of the commands issued on the Context once one more has
\* returned: "fresh" when none was issued, "allocating" after successful
\* allocating calls only, "flushing" when these were followed only by
\* successful explicit flushes, each of a handle returned and not yet
\* flushed.  Teardown is no command.
NextPattern(res, cs) ==
    IF res.op = "new" THEN (IF res.ok THEN "fresh" ELSE "none")
    ELSE IF res.op = "drop" THEN pattern
    ELSE IF pattern \in {"fresh", "allocating"} /\ res.ok /\ res.op \in AllocOps
    THEN "allocating"
    ELSE IF /\ pattern \in {"allocating", "flushing"}
            /\ res.ok /\ res.op = "flush_context"
            /\ cs[1].handle \in issued
    THEN "flushing"
    ELSE "other"

\* The positions in a sequence of foreign calls of the calls to `fn`.
CallsTo(cs, fn) == {i \in 1..Len(cs) : cs[i].fn = fn}

Finalizers == {"Esys_Finalize", "Tss2_TctiLdr_Finalize"}

\* The out-pointers through which an entry point returns buffers that it
\* allocates when it succeeds, in the order of its parameters.  Handles,
\* counters and flags are returned by value and are no buffers.
out_params(fn) ==
    CASE fn = "Esys_CreatePrimary" ->
            <<"outpublic", "creation_data", "creation_hash",
              "creation_ticket">>
      [] fn = "Esys_Create" ->
            <<"outprivate", "outpublic", "creation_data", "digest",
              "creation">>
      [] fn = "Esys_Sign" -> <<"signature">>
      [] fn = "Esys_VerifySignature" -> <<"validation">>
      [] fn = "Esys_ReadPublic" -> <<"public", "name", "qualified_name">>
      [] fn = "Esys_ContextSave" -> <<"context">>
      [] fn = "Esys_PCR_Read" ->
            <<"tpml_pcr_selection_out_ptr", "tpml_digest_ptr">>
      [] fn = "Esys_Quote" -> <<"quoted", "signature">>
      [] fn = "Esys_GetRandom" -> <<"buffer">>
      [] fn = "Esys_Hash" -> <<"out_hash_ptr", "validation_ptr">>
      [] fn = "Esys_PolicyGetDigest" -> <<"policy_digest_ptr">>
      [] fn = "Esys_TR_GetName" -> <<"name">>
      [] OTHER -> <<>>

\* A faulty variant of from_raw that takes no pointer into an MBox.
from_raw_never(fn) == <<>>

\* The pointers the success branch after an entry point wraps with
\* MBox::from_raw, in the order of the statements.  All of them precede the
\* conversions whose error `?` may return.
from_raw(fn) ==
    CASE fn = "Esys_CreatePrimary" ->
            <<"outpublic", "creation_data", "creation_hash",
              "creation_ticket">>
      [] fn = "Esys_Create" ->
            <<"outprivate", "outpublic", "creation_data", "digest",
              "creation">>
      [] fn = "Esys_Sign" -> <<"signature">>
      [] fn = "Esys_VerifySignature" -> <<"validation">>
      [] fn = "Esys_ReadPublic" -> <<"name", "qualified_name", "public">>
      [] fn = "Esys_ContextSave" -> <<"context">>
      [] fn = "Esys_PCR_Read" ->
            <<"tpml_pcr_selection_out_ptr", "tpml_digest_ptr">>
      [] fn = "Esys_Quote" -> <<"quoted", "signature">>
      [] fn = "Esys_GetRandom" -> <<"buffer">>
      [] fn = "Esys_Hash" -> <<"out_hash_ptr", "validation_ptr">>
      [] fn = "Esys_PolicyGetDigest" -> <<"policy_digest_ptr">>
      [] fn = "Esys_TR_GetName" -> <<"name">>
      [] OTHER -> <<>>

\* The output buffers of an operation that made the foreign calls `cs`: a
\* call that succeeds allocates one buffer for each of its out-pointers; the
\* success branch takes the pointers of from_raw; each MBox made is dropped,
\* and with it its buffer freed, when it goes out of scope, which is at the
\* latest when the method returns (the boxed values are copied out, never
\* moved, and no MBox is forgotten or turned back into a pointer).
RECURSIVE OutputBuffers(_)
OutputBuffers(cs) ==
    IF cs = <<>>
    THEN [allocated |-> <<>>, owned |-> <<>>, freed |-> <<>>]
    ELSE LET call == Head(cs)
             rest == OutputBuffers(Tail(cs))
             allocated == IF is_success(call.rc) THEN out_params(call.fn)
                                                 ELSE <<>>
             owned == IF is_success(call.rc) THEN from_raw(call.fn)
                                             ELSE <<>>
         IN [allocated |-> allocated \o rest.allocated,
             owned |-> owned \o rest.owned,
             freed |-> owned \o rest.freed]

\* The operation, called with the size arguments `in`, returns `res` having
\* made the foreign calls `cs`.
ReturnWith(in, res, cs) ==
    /\ input' = in
    /\ result' = res
    /\ calls' = cs
    /\ issued' = (issued \ FlushedOk(cs)) \cup Returned(res)
    /\ pattern' = NextPattern(res, cs)
    /\ last_set' = IF res.op = "set_sessions" THEN in ELSE last_set
    /\ finalized' = [f \in Finalizers |->
                        finalized[f] + Cardinality(CallsTo(cs, f))]
    /\ buffers' = OutputBuffers(cs)
    /\ reinserted' = (Returned(res) \cap open_handles # {})
    /\ UNCHANGED <<marshalled, in_progress>>

\* The same for an operation without size arguments.
Return(res, cs) == ReturnWith(<<>>, res, cs)

----------------------------------------------------------------------------
NoContext ==
    /\ phase = "none"
    /\ esys_context = "None"
    /\ tcti_context = "None"
    /\ sessions = <<ESYS_TR_NONE, ESYS_TR_NONE, ESYS_TR_NONE>>
    /\ open_handles = {}
    /\ esys_res = "uninit"
    /\ tcti_res = "uninit"
    /\ calls = <<>>
    /\ result = [op |-> "none", ok |-> TRUE, err |-> "None", rc |-> 0,
                 value |-> ESYS_TR_NONE]
    /\ issued = {}
    /\ pattern = "none"
    /\ input = <<>>
    /\ last_set = <<ESYS_TR_NONE, ESYS_TR_NONE, ESYS_TR_NONE>>
    /\ finalized = [f \in Finalizers |-> 0]
    /\ buffers = [allocated |-> <<>>, owned |-> <<>>, freed |-> <<>>]
    /\ reinserted = FALSE
    /\ in_progress = [t \in Threads |-> Idle]

\* No slice is being marshalled on its own.
NotMarshalling ==
    [buf |-> <<>>, buf_size |-> 0, state |-> "idle", buf_struct |-> <<>>]

Init ==
    /\ NoContext
    /\ marshalled = NotMarshalling

\* A faulty variant of new that does not keep the TCTI context in the
\* Context it returns, so that the allocation is freed on return.
new_keeps_no_tcti ==
    /\ phase = "none"
    /\ \E cstring_ok \in BOOLEAN, rc_tcti \in TssRc, rc_esys \in TssRc :
        IF ~cstring_ok
        THEN /\ phase' = "new_failed"
             /\ Return(ConversionErr("new"), <<>>)
             /\ UNCHANGED <<esys_context, tcti_context, sessions, open_handles,
                            esys_res, tcti_res>>
        ELSE IF ~is_success(rc_tcti)
        THEN /\ phase' = "new_failed"
             /\ Return(TssErr("new", rc_tcti),
                       <<ForeignCall("Tss2_TctiLdr_Initialize", "null",
                                     ESYS_TR_NONE, NoSessions, rc_tcti)>>)
             /\ UNCHANGED <<esys_context, tcti_context, sessions, open_handles,
                            esys_res, tcti_res>>
        ELSE IF is_success(rc_esys)
        THEN /\ phase' = "live"
             /\ esys_context' = "Some"
             /\ tcti_context' = "None"
             /\ sessions' = <<ESYS_TR_NONE, ESYS_TR_NONE, ESYS_TR_NONE>>
             /\ open_handles' = {}
             /\ esys_res' = "live"
             /\ tcti_res' = "freed"
             /\ Return(Ok("new", ESYS_TR_NONE),
                       <<ForeignCall("Tss2_TctiLdr_Initialize", "null",
                                     ESYS_TR_NONE, NoSessions, rc_tcti),
                         ForeignCall("Esys_Initialize", "null",
                                     ESYS_TR_NONE, NoSessions, rc_esys)>>)
        ELSE \* the local Option<MBox<TSS2_TCTI_CONTEXT>> goes out of scope:
             \* MBox's drop frees the allocation, no finalizer runs
             /\ phase' = "new_failed"
             /\ tcti_res' = "freed"
             /\ Return(TssErr("new", rc_esys),
                       <<ForeignCall("Tss2_TctiLdr_Initialize", "null",
                                     ESYS_TR_NONE, NoSessions, rc_tcti),
                         ForeignCall("Esys_Initialize", "null",
                                     ESYS_TR_NONE, NoSessions, rc_esys)>>)
             /\ UNCHANGED <<esys_context, tcti_context, sessions, open_handles,
                            esys_res>>

\* A faulty variant of new that goes on to Esys_Initialize after
\* Tss2_TctiLdr_Initialize has failed.
new_inits_engine_regardless ==
    /\ phase = "none"
    /\ \E cstring_ok \in BOOLEAN, rc_tcti \in TssRc, rc_esys \in TssRc :
        IF ~cstring_ok
        THEN /\ phase' = "new_failed"
             /\ Return(ConversionErr("new"), <<>>)
             /\ UNCHANGED <<esys_context, tcti_context, sessions, open_handles,
                            esys_res, tcti_res>>
        ELSE IF ~is_success(rc_tcti)
        THEN /\ phase' = "new_failed"
             /\ Return(TssErr("new", rc_tcti),
                       <<ForeignCall("Tss2_TctiLdr_Initialize", "null",
                                     ESYS_TR_NONE, NoSessions, rc_tcti),
                         ForeignCall("Esys_Initialize", "null",
                                     ESYS_TR_NONE, NoSessions, rc_esys)>>)
             /\ UNCHANGED <<esys_context, tcti_context, sessions, open_handles,
                            esys_res, tcti_res>>
        ELSE IF is_success(rc_esys)
        THEN /\ phase' = "live"
             /\ esys_context' = "Some"
             /\ tcti_context' = "Some"
             /\ sessions' = <<ESYS_TR_NONE, ESYS_TR_NONE, ESYS_TR_NONE>>
             /\ open_handles' = {}
             /\ esys_res' = "live"
             /\ tcti_res' = "live"
             /\ Return(Ok("new", ESYS_TR_NONE),
                       <<ForeignCall("Tss2_TctiLdr_Initialize", "null",
                                     ESYS_TR_NONE, NoSessions, rc_tcti),
                         ForeignCall("Esys_Initialize", "null",
                                     ESYS_TR_NONE, NoSessions, rc_esys)>>)
        ELSE \* the local Option<MBox<TSS2_TCTI_CONTEXT>> goes out of scope:
             \* MBox's drop frees the allocation, no finalizer runs
             /\ phase' = "new_failed"
             /\ tcti_res' = "freed"
             /\ Return(TssErr("new", rc_esys),
                       <<ForeignCall("Tss2_TctiLdr_Initialize", "null",
                                     ESYS_TR_NONE, NoSessions, rc_tcti),
                         ForeignCall("Esys_Initialize", "null",
                                     ESYS_TR_NONE, NoSessions, rc_esys)>>)
             /\ UNCHANGED <<esys_context, tcti_context, sessions, open_handles,
                            esys_res>>

\* Context::new
new ==
    /\ phase = "none"
    /\ \E cstring_ok \in BOOLEAN, rc_tcti \in TssRc, rc_esys \in TssRc :
        IF ~cstring_ok
        THEN /\ phase' = "new_failed"
             /\ Return(ConversionErr("new"), <<>>)
             /\ UNCHANGED <<esys_context, tcti_context, sessions, open_handles,
                            esys_res, tcti_res>>
        ELSE IF ~is_success(rc_tcti)
        THEN /\ phase' = "new_failed"
             /\ Return(TssErr("new", rc_tcti),
                       <<ForeignCall("Tss2_TctiLdr_Initialize", "null",
                                     ESYS_TR_NONE, NoSessions, rc_tcti)>>)
             /\ UNCHANGED <<esys_context, tcti_context, sessions, open_handles,
                            esys_res, tcti_res>>
        ELSE IF is_success(rc_esys)
        THEN /\ phase' = "live"
             /\ esys_context' = "Some"
             /\ tcti_context' = "Some"
             /\ sessions' = <<ESYS_TR_NONE, ESYS_TR_NONE, ESYS_TR_NONE>>
             /\ open_handles' = {}
             /\ esys_res' = "live"
             /\ tcti_res' = "live"
             /\ Return(Ok("new", ESYS_TR_NONE),
                       <<ForeignCall("Tss2_TctiLdr_Initialize", "null",
                                     ESYS_TR_NONE, NoSessions, rc_tcti),
                         ForeignCall("Esys_Initialize", "null",
                                     ESYS_TR_NONE, NoSessions, rc_esys)>>)
        ELSE \* the local Option<MBox<TSS2_TCTI_CONTEXT>> goes out of scope:
             \* MBox's drop frees the allocation, no finalizer runs
             /\ phase' = "new_failed"
             /\ tcti_res' = "freed"
             /\ Return(TssErr("new", rc_esys),
                       <<ForeignCall("Tss2_TctiLdr_Initialize", "null",
                                     ESYS_TR_NONE, NoSessions, rc_tcti),
                         ForeignCall("Esys_Initialize", "null",
                                     ESYS_TR_NONE, NoSessions, rc_esys)>>)
             /\ UNCHANGED <<esys_context, tcti_context, sessions, open_handles,
                            esys_res>>

\* Faulty variants of flush_context_effect: one that releases the handle
\* whatever the status, one that never releases it, one that empties the set.
flush_context_effect_always(open, handle, rc) == open \ {handle}

flush_context_effect_keep(open, handle, rc) == open

flush_context_effect_clear(open, handle, rc) ==
    IF is_success(rc) THEN {} ELSE open

\* Context::flush_context, lines 688-694: what a flush that returned `rc`
\* does to the set of open handles
flush_context_effect(open, handle, rc) ==
    IF is_success(rc) THEN open \ {handle} ELSE open

\* Context::flush_context
flush_context ==
    /\ phase = "live"
    /\ \E handle \in EsysTr, rc \in TssRc :
        /\ open_handles' = flush_context_effect(open_handles, handle, rc)
        /\ Return(IF is_success(rc) THEN Ok("flush_context", ESYS_TR_NONE)
                                    ELSE TssErr("flush_context", rc),
                  <<ForeignCall("Esys_FlushContext", mut_context, handle,
                                NoSessions, rc)>>)
    /\ UNCHANGED <<lifecycle, sessions>>

\* A faulty variant of load that returns the handle without registering it.
load_no_register ==
    /\ phase = "live"
    /\ \E parent_handle \in HandleArgs, rc \in TssRc :
        LET call == ForeignCall("Esys_Load", mut_context, parent_handle,
                                sessions, rc)
        IN IF is_success(rc)
           THEN \E handle \in Handles : Return(Ok("load", handle), <<call>>)
           ELSE Return(TssErr("load", rc), <<call>>)
    /\ UNCHANGED <<lifecycle, sessions, open_handles>>

\* A faulty variant of load that does not look at the status: it registers
\* and returns whatever the handle variable holds.
load_ignores_status ==
    /\ phase = "live"
    /\ \E parent_handle \in HandleArgs, rc \in TssRc :
        LET call == ForeignCall("Esys_Load", mut_context, parent_handle,
                                sessions, rc)
        IN \E handle \in Handles :
             /\ open_handles' = open_handles \cup {handle}
             /\ Return(Ok("load", handle), <<call>>)
    /\ UNCHANGED <<lifecycle, sessions>>

\* Context::load
load ==
    /\ phase = "live"
    /\ \E parent_handle \in HandleArgs, rc \in TssRc :
        LET call == ForeignCall("Esys_Load", mut_context, parent_handle,
                                sessions, rc)
        IN IF is_success(rc)
           THEN \E handle \in Handles :
                /\ open_handles' = open_handles \cup {handle}
                /\ Return(Ok("load", handle), <<call>>)
           ELSE /\ UNCHANGED open_handles
                /\ Return(TssErr("load", rc), <<call>>)
    /\ UNCHANGED <<lifecycle, sessions>>

\* A faulty variant of start_auth_session that puts the new session into
\* the first slot of the session tuple.
start_auth_session_attaches ==
    /\ phase = "live"
    /\ \E tpm_key \in HandleArgs, nonce \in NonceInputs :
        IF wrap_buffer_fails(nonce, NONCE_SIZE)
        THEN /\ UNCHANGED <<open_handles, sessions>>
             /\ ReturnWith(<<Len(nonce)>>,
                           WrongParamSize("start_auth_session"), <<>>)
        ELSE \E rc \in TssRc :
             LET nonce_caller == wrap_buffer(nonce, NONCE_SIZE)
                 call == ForeignCallWith("Esys_StartAuthSession", mut_context,
                             tpm_key, sessions,
                             IF nonce = <<>> THEN <<>>
                                             ELSE <<nonce_caller.size>>,
                             rc)
             IN IF is_success(rc)
                THEN \E sess \in Handles :
                     /\ open_handles' = open_handles \cup {sess}
                     /\ sessions' = <<sess, sessions[2], sessions[3]>>
                     /\ ReturnWith(<<Len(nonce)>>,
                                   Ok("start_auth_session", sess), <<call>>)
                ELSE /\ UNCHANGED <<open_handles, sessions>>
                     /\ ReturnWith(<<Len(nonce)>>,
                                   TssErr("start_auth_session", rc), <<call>>)
    /\ UNCHANGED lifecycle

\* Context::start_auth_session
start_auth_session ==
    /\ phase = "live"
    /\ \E tpm_key \in HandleArgs, nonce \in NonceInputs :
        IF wrap_buffer_fails(nonce, NONCE_SIZE)
        THEN /\ UNCHANGED open_handles
             /\ ReturnWith(<<Len(nonce)>>,
                           WrongParamSize("start_auth_session"), <<>>)
        ELSE \E rc \in TssRc :
             LET nonce_caller == wrap_buffer(nonce, NONCE_SIZE)
                 call == ForeignCallWith("Esys_StartAuthSession", mut_context,
                             tpm_key, sessions,
                             IF nonce = <<>> THEN <<>>
                                             ELSE <<nonce_caller.size>>,
                             rc)
             IN IF is_success(rc)
                THEN \E sess \in Handles :
                     /\ open_handles' = open_handles \cup {sess}
                     /\ ReturnWith(<<Len(nonce)>>,
                                   Ok("start_auth_session", sess), <<call>>)
                ELSE /\ UNCHANGED open_handles
                     /\ ReturnWith(<<Len(nonce)>>,
                                   TssErr("start_auth_session", rc), <<call>>)
    /\ UNCHANGED <<lifecycle, sessions>>

\* A faulty variant of set_sessions that stores the first slot only.
set_sessions_first_slot_only ==
    /\ phase = "live"
    /\ \E session_handles \in SessionTriples :
        /\ sessions' = <<session_handles[1], sessions[2], sessions[3]>>
        /\ ReturnWith(session_handles, Ok("set_sessions", ESYS_TR_NONE), <<>>)
    /\ UNCHANGED <<lifecycle, open_handles>>

\* Context::set_sessions
set_sessions ==
    /\ phase = "live"
    /\ \E session_handles \in SessionTriples :
        /\ sessions' = session_handles
        /\ ReturnWith(session_handles, Ok("set_sessions", ESYS_TR_NONE), <<>>)
    /\ UNCHANGED <<lifecycle, open_handles>>

\* Context::sessions, the getter: returns the stored triple
get_sessions ==
    /\ phase = "live"
    /\ Return(Ok("sessions", sessions), <<>>)
    /\ UNCHANGED <<lifecycle, sessions, open_handles>>

\* A faulty variant of create_primary_key that rejects a creation_pcrs list
\* of exactly PCR_SELECTION_MAX entries.
create_primary_key_pcrs_off_by_one ==
    /\ phase = "live"
    /\ \E primary_handle \in HandleArgs, in \in CreateInputs :
        IF \/ wrap_buffer_fails(in.auth_value, AUTH_SIZE)
           \/ wrap_buffer_fails(in.initial_data, SENSITIVE_DATA_SIZE)
           \/ wrap_buffer_fails(in.outside_info, DATA_SIZE)
           \/ Len(in.creation_pcrs) >= PCR_SELECTION_MAX
        THEN /\ UNCHANGED open_handles
             /\ ReturnWith(SizesOf(in),
                           WrongParamSize("create_primary_key"), <<>>)
        ELSE \E rc \in TssRc :
             LET call == ForeignCallWith("Esys_CreatePrimary", mut_context,
                             primary_handle, sessions,
                             <<wrap_buffer(in.auth_value, AUTH_SIZE).size,
                               wrap_buffer(in.initial_data,
                                           SENSITIVE_DATA_SIZE).size,
                               wrap_buffer(in.outside_info, DATA_SIZE).size,
                               Len(in.creation_pcrs)>>,
                             rc)
             IN IF is_success(rc)
                THEN \E prim_key_handle \in Handles :
                     /\ open_handles' = open_handles \cup {prim_key_handle}
                     /\ ReturnWith(SizesOf(in),
                                   Ok("create_primary_key", prim_key_handle),
                                   <<call>>)
                ELSE /\ UNCHANGED open_handles
                     /\ ReturnWith(SizesOf(in),
                                   TssErr("create_primary_key", rc), <<call>>)
    /\ UNCHANGED <<lifecycle, sessions>>

\* A faulty variant of create_primary_key that registers the parent handle
\* it was given in place of the handle the engine returned.
create_primary_key_registers_parent ==
    /\ phase = "live"
    /\ \E primary_handle \in HandleArgs, in \in CreateInputs :
        IF \/ wrap_buffer_fails(in.auth_value, AUTH_SIZE)
           \/ wrap_buffer_fails(in.initial_data, SENSITIVE_DATA_SIZE)
           \/ wrap_buffer_fails(in.outside_info, DATA_SIZE)
           \/ Len(in.creation_pcrs) > PCR_SELECTION_MAX
        THEN /\ UNCHANGED open_handles
             /\ ReturnWith(SizesOf(in),
                           WrongParamSize("create_primary_key"), <<>>)
        ELSE \E rc \in TssRc :
             LET call == ForeignCall("Esys_CreatePrimary", mut_context,
                                     primary_handle, sessions, rc)
             IN IF is_success(rc)
                THEN \E prim_key_handle \in Handles :
                     /\ open_handles' = open_handles \cup {primary_handle}
                     /\ ReturnWith(SizesOf(in),
                                   Ok("create_primary_key", prim_key_handle),
                                   <<call>>)
                ELSE /\ UNCHANGED open_handles
                     /\ ReturnWith(SizesOf(in),
                                   TssErr("create_primary_key", rc), <<call>>)
    /\ UNCHANGED <<lifecycle, sessions>>

\* Context::create_primary_key
create_primary_key ==
    /\ phase = "live"
    /\ \E primary_handle \in HandleArgs, in \in CreateInputs :
        IF \/ wrap_buffer_fails(in.auth_value, AUTH_SIZE)
           \/ wrap_buffer_fails(in.initial_data, SENSITIVE_DATA_SIZE)
           \/ wrap_buffer_fails(in.outside_info, DATA_SIZE)
           \/ Len(in.creation_pcrs) > PCR_SELECTION_MAX
        THEN /\ UNCHANGED open_handles
             /\ ReturnWith(SizesOf(in),
                           WrongParamSize("create_primary_key"), <<>>)
        ELSE \E rc \in TssRc :
             LET call == ForeignCallWith("Esys_CreatePrimary", mut_context,
                             primary_handle, sessions,
                             <<wrap_buffer(in.auth_value, AUTH_SIZE).size,
                               wrap_buffer(in.initial_data,
                                           SENSITIVE_DATA_SIZE).size,
                               wrap_buffer(in.outside_info, DATA_SIZE).size,
                               Len(in.creation_pcrs)>>,
                             rc)
             IN IF is_success(rc)
                THEN \E prim_key_handle \in Handles :
                     /\ open_handles' = open_handles \cup {prim_key_handle}
                     /\ ReturnWith(SizesOf(in),
                                   Ok("create_primary_key", prim_key_handle),
                                   <<call>>)
                ELSE /\ UNCHANGED open_handles
                     /\ ReturnWith(SizesOf(in),
                                   TssErr("create_primary_key", rc), <<call>>)
    /\ UNCHANGED <<lifecycle, sessions>>

\* A faulty variant of create_key that registers the handle of the parent
\* when the key has been created.
create_key_registers_parent ==
    /\ phase = "live"
    /\ \E parent_handle \in HandleArgs, in \in CreateInputs :
        IF \/ wrap_buffer_fails(in.auth_value, AUTH_SIZE)
           \/ wrap_buffer_fails(in.initial_data, SENSITIVE_DATA_SIZE)
           \/ wrap_buffer_fails(in.outside_info, DATA_SIZE)
           \/ Len(in.creation_pcrs) > PCR_SELECTION_MAX
        THEN /\ UNCHANGED open_handles
             /\ ReturnWith(SizesOf(in), WrongParamSize("create_key"), <<>>)
        ELSE \E rc \in TssRc :
             LET call == ForeignCallWith("Esys_Create", mut_context,
                             parent_handle, sessions,
                             <<wrap_buffer(in.auth_value, AUTH_SIZE).size,
                               wrap_buffer(in.initial_data,
                                           SENSITIVE_DATA_SIZE).size,
                               wrap_buffer(in.outside_info, DATA_SIZE).size,
                               Len(in.creation_pcrs)>>,
                             rc)
             IN IF is_success(rc)
                THEN /\ open_handles' = open_handles \cup {parent_handle}
                     /\ ReturnWith(SizesOf(in),
                                   Ok("create_key", ESYS_TR_NONE), <<call>>)
                ELSE /\ UNCHANGED open_handles
                     /\ ReturnWith(SizesOf(in),
                                   TssErr("create_key", rc), <<call>>)
    /\ UNCHANGED <<lifecycle, sessions>>

\* Context::create_key
create_key ==
    /\ phase = "live"
    /\ \E parent_handle \in HandleArgs, in \in CreateInputs :
        IF \/ wrap_buffer_fails(in.auth_value, AUTH_SIZE)
           \/ wrap_buffer_fails(in.initial_data, SENSITIVE_DATA_SIZE)
           \/ wrap_buffer_fails(in.outside_info, DATA_SIZE)
           \/ Len(in.creation_pcrs) > PCR_SELECTION_MAX
        THEN ReturnWith(SizesOf(in), WrongParamSize("create_key"), <<>>)
        ELSE \E rc \in TssRc :
             LET call == ForeignCallWith("Esys_Create", mut_context,
                             parent_handle, sessions,
                             <<wrap_buffer(in.auth_value, AUTH_SIZE).size,
                               wrap_buffer(in.initial_data,
                                           SENSITIVE_DATA_SIZE).size,
                               wrap_buffer(in.outside_info, DATA_SIZE).size,
                               Len(in.creation_pcrs)>>,
                             rc)
             IN IF is_success(rc)
                THEN ReturnWith(SizesOf(in),
                                Ok("create_key", ESYS_TR_NONE), <<call>>)
                ELSE ReturnWith(SizesOf(in),
                                TssErr("create_key", rc), <<call>>)
    /\ UNCHANGED <<lifecycle, sessions, open_handles>>

\* Context::sign
sign ==
    /\ phase = "live"
    /\ \E key_handle \in HandleArgs, digest \in DigestInputs :
        IF wrap_buffer_fails(digest, DIGEST_SIZE)
        THEN ReturnWith(<<Len(digest)>>, WrongParamSize("sign"), <<>>)
        ELSE \E rc \in TssRc :
             LET call == ForeignCallWith("Esys_Sign", mut_context, key_handle,
                             sessions,
                             <<wrap_buffer(digest, DIGEST_SIZE).size>>, rc)
             IN IF is_success(rc)
                THEN \E signature_ok \in BOOLEAN :
                     IF signature_ok
                     THEN ReturnWith(<<Len(digest)>>,
                                     Ok("sign", ESYS_TR_NONE), <<call>>)
                     ELSE ReturnWith(<<Len(digest)>>,
                                     ConversionErr("sign"), <<call>>)
                ELSE ReturnWith(<<Len(digest)>>, TssErr("sign", rc), <<call>>)
    /\ UNCHANGED <<lifecycle, sessions, open_handles>>

\* Context::verify_signature
verify_signature ==
    /\ phase = "live"
    /\ \E key_handle \in HandleArgs, digest \in DigestInputs :
        IF wrap_buffer_fails(digest, DIGEST_SIZE)
        THEN ReturnWith(<<Len(digest)>>,
                        WrongParamSize("verify_signature"), <<>>)
        ELSE \E rc \in TssRc :
             LET call == ForeignCallWith("Esys_VerifySignature", mut_context,
                             key_handle, sessions,
                             <<wrap_buffer(digest, DIGEST_SIZE).size>>, rc)
             IN IF is_success(rc)
                THEN ReturnWith(<<Len(digest)>>,
                                Ok("verify_signature", ESYS_TR_NONE), <<call>>)
                ELSE ReturnWith(<<Len(digest)>>,
                                TssErr("verify_signature", rc), <<call>>)
    /\ UNCHANGED <<lifecycle, sessions, open_handles>>

\* A faulty variant of load_external whose registry drops a handle that is
\* inserted a second time.
load_external_toggles ==
    /\ phase = "live"
    /\ \E rc \in TssRc :
        LET call == ForeignCall("Esys_LoadExternal", mut_context, ESYS_TR_NONE,
                                sessions, rc)
        IN IF is_success(rc)
           THEN \E key_handle \in Handles :
                /\ open_handles' = IF key_handle \in open_handles
                                   THEN open_handles \ {key_handle}
                                   ELSE open_handles \cup {key_handle}
                /\ Return(Ok("load_external", key_handle), <<call>>)
           ELSE /\ UNCHANGED open_handles
                /\ Return(TssErr("load_external", rc), <<call>>)
    /\ UNCHANGED <<lifecycle, sessions>>

\* Context::load_external
load_external ==
    /\ phase = "live"
    /\ \E rc \in TssRc :
        LET call == ForeignCall("Esys_LoadExternal", mut_context, ESYS_TR_NONE,
                                sessions, rc)
        IN IF is_success(rc)
           THEN \E key_handle \in Handles :
                /\ open_handles' = open_handles \cup {key_handle}
                /\ Return(Ok("load_external", key_handle), <<call>>)
           ELSE /\ UNCHANGED open_handles
                /\ Return(TssErr("load_external", rc), <<call>>)
    /\ UNCHANGED <<lifecycle, sessions>>

\* Context::load_external_public
load_external_public ==
    /\ phase = "live"
    /\ \E rc \in TssRc :
        LET call == ForeignCall("Esys_LoadExternal", mut_context, ESYS_TR_NONE,
                                sessions, rc)
        IN IF is_success(rc)
           THEN \E key_handle \in Handles :
                /\ open_handles' = open_handles \cup {key_handle}
                /\ Return(Ok("load_external_public", key_handle), <<call>>)
           ELSE /\ UNCHANGED open_handles
                /\ Return(TssErr("load_external_public", rc), <<call>>)
    /\ UNCHANGED <<lifecycle, sessions>>

\* Context::read_public
read_public ==
    /\ phase = "live"
    /\ \E key_handle \in HandleArgs, rc \in TssRc :
        LET call == ForeignCall("Esys_ReadPublic", mut_context, key_handle,
                                sessions, rc)
        IN IF is_success(rc)
           THEN Return(Ok("read_public", ESYS_TR_NONE), <<call>>)
           ELSE Return(TssErr("read_public", rc), <<call>>)
    /\ UNCHANGED <<lifecycle, sessions, open_handles>>

\* A faulty variant of context_save that drops the saved handle from the
\* registry.
context_save_releases ==
    /\ phase = "live"
    /\ \E handle \in EsysTr, rc \in TssRc :
        LET call == ForeignCall("Esys_ContextSave", mut_context, handle,
                                NoSessions, rc)
        IN IF is_success(rc)
           THEN /\ open_handles' = open_handles \ {handle}
                /\ \E context_ok \in BOOLEAN :
                     IF context_ok
                     THEN Return(Ok("context_save", ESYS_TR_NONE), <<call>>)
                     ELSE Return(ConversionErr("context_save"), <<call>>)
           ELSE /\ UNCHANGED open_handles
                /\ Return(TssErr("context_save", rc), <<call>>)
    /\ UNCHANGED <<lifecycle, sessions>>

\* Context::context_save
context_save ==
    /\ phase = "live"
    /\ \E handle \in EsysTr, rc \in TssRc :
        LET call == ForeignCall("Esys_ContextSave", mut_context, handle,
                                NoSessions, rc)
        IN IF is_success(rc)
           THEN \E context_ok \in BOOLEAN :
                IF context_ok
                THEN Return(Ok("context_save", ESYS_TR_NONE), <<call>>)
                ELSE Return(ConversionErr("context_save"), <<call>>)
           ELSE Return(TssErr("context_save", rc), <<call>>)
    /\ UNCHANGED <<lifecycle, sessions, open_handles>>

\* Context::context_load
context_load ==
    /\ phase = "live"
    /\ \E context_ok \in BOOLEAN :
        IF ~context_ok
        THEN /\ UNCHANGED open_handles
             /\ Return(ConversionErr("context_load"), <<>>)
        ELSE \E rc \in TssRc :
             LET call == ForeignCall("Esys_ContextLoad", mut_context,
                                     ESYS_TR_NONE, NoSessions, rc)
             IN IF is_success(rc)
                THEN \E handle \in Handles :
                     /\ open_handles' = open_handles \cup {handle}
                     /\ Return(Ok("context_load", handle), <<call>>)
                ELSE /\ UNCHANGED open_handles
                     /\ Return(TssErr("context_load", rc), <<call>>)
    /\ UNCHANGED <<lifecycle, sessions>>

\* Context::pcr_read
pcr_read ==
    /\ phase = "live"
    /\ \E rc \in TssRc :
        LET call == ForeignCall("Esys_PCR_Read", mut_context, ESYS_TR_NONE,
                                sessions, rc)
        IN IF is_success(rc)
           THEN \E selections_ok \in BOOLEAN, data_ok \in BOOLEAN :
                IF selections_ok /\ data_ok
                THEN Return(Ok("pcr_read", ESYS_TR_NONE), <<call>>)
                ELSE Return(ConversionErr("pcr_read"), <<call>>)
           ELSE Return(TssErr("pcr_read", rc), <<call>>)
    /\ UNCHANGED <<lifecycle, sessions, open_handles>>

\* Context::quote
quote ==
    /\ phase = "live"
    /\ \E signing_key_handle \in HandleArgs, qualifying_data \in DataInputs :
        IF wrap_buffer_fails(qualifying_data, DATA_SIZE)
        THEN ReturnWith(<<Len(qualifying_data)>>,
                        WrongParamSize("quote"), <<>>)
        ELSE \E rc \in TssRc :
             LET call == ForeignCallWith("Esys_Quote", mut_context,
                             signing_key_handle, sessions,
                             <<wrap_buffer(qualifying_data, DATA_SIZE).size>>,
                             rc)
             IN IF is_success(rc)
                THEN \E signature_ok \in BOOLEAN :
                     IF signature_ok
                     THEN ReturnWith(<<Len(qualifying_data)>>,
                                     Ok("quote", ESYS_TR_NONE), <<call>>)
                     ELSE ReturnWith(<<Len(qualifying_data)>>,
                                     ConversionErr("quote"), <<call>>)
                ELSE ReturnWith(<<Len(qualifying_data)>>,
                                TssErr("quote", rc), <<call>>)
    /\ UNCHANGED <<lifecycle, sessions, open_handles>>

\* Context::policy_pcr
policy_pcr ==
    /\ phase = "live"
    /\ \E policy_session \in HandleArgs, pcr_policy_digest \in DigestInputs :
        IF wrap_buffer_fails(pcr_policy_digest, DIGEST_SIZE)
        THEN ReturnWith(<<Len(pcr_policy_digest)>>,
                        WrongParamSize("policy_pcr"), <<>>)
        ELSE \E rc \in TssRc :
             LET call == ForeignCallWith("Esys_PolicyPCR", mut_context,
                             policy_session, sessions,
                             <<wrap_buffer(pcr_policy_digest,
                                           DIGEST_SIZE).size>>,
                             rc)
             IN IF is_success(rc)
                THEN ReturnWith(<<Len(pcr_policy_digest)>>,
                                Ok("policy_pcr", ESYS_TR_NONE), <<call>>)
                ELSE ReturnWith(<<Len(pcr_policy_digest)>>,
                                TssErr("policy_pcr", rc), <<call>>)
    /\ UNCHANGED <<lifecycle, sessions, open_handles>>

\* A faulty variant of get_random that narrows num_bytes to 16 bits with a
\* wrapping cast in place of the checked conversion.
get_random_wrapping_cast ==
    /\ phase = "live"
    /\ \E num_bytes \in NumBytesInputs, rc \in TssRc :
        LET call == ForeignCallWith("Esys_GetRandom", mut_context,
                        ESYS_TR_NONE, sessions,
                        <<num_bytes % (U16_MAX + 1)>>, rc)
        IN IF is_success(rc)
           THEN ReturnWith(<<num_bytes>>,
                           Ok("get_random", ESYS_TR_NONE), <<call>>)
           ELSE ReturnWith(<<num_bytes>>, TssErr("get_random", rc), <<call>>)
    /\ UNCHANGED <<lifecycle, sessions, open_handles>>

\* Context::get_random
get_random ==
    /\ phase = "live"
    /\ \E num_bytes \in NumBytesInputs :
        IF num_bytes > U16_MAX
        THEN ReturnWith(<<num_bytes>>, WrongParamSize("get_random"), <<>>)
        ELSE \E rc \in TssRc :
             LET call == ForeignCallWith("Esys_GetRandom", mut_context,
                             ESYS_TR_NONE, sessions, <<num_bytes>>, rc)
             IN IF is_success(rc)
                THEN ReturnWith(<<num_bytes>>,
                                Ok("get_random", ESYS_TR_NONE), <<call>>)
                ELSE ReturnWith(<<num_bytes>>,
                                TssErr("get_random", rc), <<call>>)
    /\ UNCHANGED <<lifecycle, sessions, open_handles>>

\* A faulty variant of test_parms that hands the engine the first two
\* session handles in each other's slot.
test_parms_slots_swapped ==
    /\ phase = "live"
    /\ \E rc \in TssRc :
        LET call == ForeignCall("Esys_TestParms", mut_context, ESYS_TR_NONE,
                                <<sessions[2], sessions[1], sessions[3]>>, rc)
        IN IF is_success(rc)
           THEN Return(Ok("test_parms", ESYS_TR_NONE), <<call>>)
           ELSE Return(TssErr("test_parms", rc), <<call>>)
    /\ UNCHANGED <<lifecycle, sessions, open_handles>>

\* Context::test_parms
test_parms ==
    /\ phase = "live"
    /\ \E rc \in TssRc :
        LET call == ForeignCall("Esys_TestParms", mut_context, ESYS_TR_NONE,
                                sessions, rc)
        IN IF is_success(rc)
           THEN Return(Ok("test_parms", ESYS_TR_NONE), <<call>>)
           ELSE Return(TssErr("test_parms", rc), <<call>>)
    /\ UNCHANGED <<lifecycle, sessions, open_handles>>

\* Context::hash
hash ==
    /\ phase = "live"
    /\ \E data \in MaxBufferInputs :
        IF wrap_buffer_fails(data, MAX_BUFFER_SIZE)
        THEN ReturnWith(<<Len(data)>>, WrongParamSize("hash"), <<>>)
        ELSE \E rc \in TssRc :
             LET call == ForeignCallWith("Esys_Hash", mut_context,
                             ESYS_TR_NONE, sessions,
                             <<wrap_buffer(data, MAX_BUFFER_SIZE).size>>, rc)
             IN IF is_success(rc)
                THEN \E ticket_ok \in BOOLEAN :
                     IF ticket_ok
                     THEN ReturnWith(<<Len(data)>>,
                                     Ok("hash", ESYS_TR_NONE), <<call>>)
                     ELSE ReturnWith(<<Len(data)>>,
                                     ConversionErr("hash"), <<call>>)
                ELSE ReturnWith(<<Len(data)>>, TssErr("hash", rc), <<call>>)
    /\ UNCHANGED <<lifecycle, sessions, open_handles>>

\* Context::policy_get_digest
policy_get_digest ==
    /\ phase = "live"
    /\ \E policy_session \in HandleArgs, rc \in TssRc :
        LET call == ForeignCall("Esys_PolicyGetDigest", mut_context,
                                policy_session, sessions, rc)
        IN IF is_success(rc)
           THEN Return(Ok("policy_get_digest", ESYS_TR_NONE), <<call>>)
           ELSE Return(TssErr("policy_get_digest", rc), <<call>>)
    /\ UNCHANGED <<lifecycle, sessions, open_handles>>

\* A faulty variant of tr_set_auth that checks the length of auth_value only
\* after the engine has been called.
tr_set_auth_validates_late ==
    /\ phase = "live"
    /\ \E handle \in HandleArgs, auth_value \in AuthInputs, rc \in TssRc :
        LET call == ForeignCallWith("Esys_TR_SetAuth", mut_context, handle,
                        NoSessions, <<Len(auth_value)>>, rc)
        IN IF wrap_buffer_fails(auth_value, AUTH_SIZE)
           THEN ReturnWith(<<Len(auth_value)>>,
                           WrongParamSize("tr_set_auth"), <<call>>)
           ELSE IF is_success(rc)
           THEN ReturnWith(<<Len(auth_value)>>,
                           Ok("tr_set_auth", ESYS_TR_NONE), <<call>>)
           ELSE ReturnWith(<<Len(auth_value)>>,
                           TssErr("tr_set_auth", rc), <<call>>)
    /\ UNCHANGED <<lifecycle, sessions, open_handles>>

\* Context::tr_set_auth
tr_set_auth ==
    /\ phase = "live"
    /\ \E handle \in HandleArgs, auth_value \in AuthInputs :
        IF wrap_buffer_fails(auth_value, AUTH_SIZE)
        THEN ReturnWith(<<Len(auth_value)>>,
                        WrongParamSize("tr_set_auth"), <<>>)
        ELSE \E rc \in TssRc :
             LET call == ForeignCallWith("Esys_TR_SetAuth", mut_context,
                             handle, NoSessions,
                             <<wrap_buffer(auth_value, AUTH_SIZE).size>>, rc)
             IN IF is_success(rc)
                THEN ReturnWith(<<Len(auth_value)>>,
                                Ok("tr_set_auth", ESYS_TR_NONE), <<call>>)
                ELSE ReturnWith(<<Len(auth_value)>>,
                                TssErr("tr_set_auth", rc), <<call>>)
    /\ UNCHANGED <<lifecycle, sessions, open_handles>>

\* Context::tr_get_name
tr_get_name ==
    /\ phase = "live"
    /\ \E handle \in HandleArgs, rc \in TssRc :
        LET call == ForeignCall("Esys_TR_GetName", mut_context, handle,
                                NoSessions, rc)
        IN IF is_success(rc)
           THEN Return(Ok("tr_get_name", ESYS_TR_NONE), <<call>>)
           ELSE Return(TssErr("tr_get_name", rc), <<call>>)
    /\ UNCHANGED <<lifecycle, sessions, open_handles>>

\* Context::tr_sess_set_attributes
tr_sess_set_attributes ==
    /\ phase = "live"
    /\ \E handle \in HandleArgs, rc \in TssRc :
        LET call == ForeignCall("Esys_TRSess_SetAttributes", mut_context,
                                handle, NoSessions, rc)
        IN IF is_success(rc)
           THEN Return(Ok("tr_sess_set_attributes", ESYS_TR_NONE), <<call>>)
           ELSE Return(TssErr("tr_sess_set_attributes", rc), <<call>>)
    /\ UNCHANGED <<lifecycle, sessions, open_handles>>

\* Context::tr_sess_get_attributes
tr_sess_get_attributes ==
    /\ phase = "live"
    /\ \E handle \in HandleArgs, rc \in TssRc :
        LET call == ForeignCall("Esys_TRSess_GetAttributes", mut_context,
                                handle, NoSessions, rc)
        IN IF is_success(rc)
           THEN Return(Ok("tr_sess_get_attributes", ESYS_TR_NONE), <<call>>)
           ELSE Return(TssErr("tr_sess_get_attributes", rc), <<call>>)
    /\ UNCHANGED <<lifecycle, sessions, open_handles>>

----------------------------------------------------------------------------
\* impl Drop for Context

\* Every order in which the clone of the set can be iterated.
Orders(S) ==
    {o \in [1..Cardinality(S) -> S] :
        \A i, j \in 1..Cardinality(S) : o[i] = o[j] => i = j}

\* A faulty variant of drop_flush that gives up at the first flush that fails.
RECURSIVE drop_flush_stop(_, _, _, _)
drop_flush_stop(order, rcs, open, made) ==
    IF order = <<>>
    THEN [open |-> open, calls |-> made]
    ELSE LET handle == Head(order)
             call == ForeignCall("Esys_FlushContext", mut_context, handle,
                                 NoSessions, rcs[handle])
         IN IF is_success(rcs[handle])
            THEN drop_flush_stop(Tail(order), rcs, open \ {handle},
                                 Append(made, call))
            ELSE [open |-> open, calls |-> Append(made, call)]

\* Lines 1089-1094: flush_context on each handle of the snapshot in turn,
\* the errors logged and dropped.  Yields the open handles left and the
\* foreign calls made, given the status rcs[h] the engine returns for h.
RECURSIVE drop_flush(_, _, _, _)
drop_flush(order, rcs, open, made) ==
    IF order = <<>>
    THEN [open |-> open, calls |-> made]
    ELSE LET handle == Head(order)
         IN drop_flush(Tail(order), rcs,
                 flush_context_effect(open, handle, rcs[handle]),
                 Append(made, ForeignCall("Esys_FlushContext", mut_context,
                                          handle, NoSessions, rcs[handle])))

\* Faulty variants of drop_finalize: the ESYS context closed first, the
\* ESYS context closed twice, and the TCTI context never closed.
drop_finalize_esys_first ==
    <<ForeignCall("Esys_Finalize", "esys_ptr", ESYS_TR_NONE, NoSessions, 0),
      ForeignCall("Tss2_TctiLdr_Finalize", "tcti_ptr", ESYS_TR_NONE,
                  NoSessions, 0)>>

drop_finalize_esys_twice ==
    <<ForeignCall("Tss2_TctiLdr_Finalize", "tcti_ptr", ESYS_TR_NONE,
                  NoSessions, 0),
      ForeignCall("Esys_Finalize", "esys_ptr", ESYS_TR_NONE, NoSessions, 0),
      ForeignCall("Esys_Finalize", "esys_ptr", ESYS_TR_NONE, NoSessions, 0)>>

drop_finalize_no_tcti ==
    <<ForeignCall("Esys_Finalize", "esys_ptr", ESYS_TR_NONE, NoSessions, 0)>>

\* Lines 1096-1103: the two finalizers, in the order Drop calls them.
drop_finalize ==
    <<ForeignCall("Tss2_TctiLdr_Finalize", "tcti_ptr", ESYS_TR_NONE,
                  NoSessions, 0),
      ForeignCall("Esys_Finalize", "esys_ptr", ESYS_TR_NONE, NoSessions, 0)>>

\* A faulty variant of drop_calls: both contexts closed before the handles
\* are flushed.
drop_calls_finalize_first(flush_calls) == drop_finalize \o flush_calls

\* The foreign calls of Drop in order: the flush attempts made while the
\* ESYS context is still held, then the two finalizers.
drop_calls(flush_calls) == flush_calls \o drop_finalize

drop ==
    /\ phase = "live"
    /\ \E order \in Orders(open_handles), rcs \in [open_handles -> TssRc] :
        LET flushed == drop_flush(order, rcs, open_handles, <<>>)
        IN /\ open_handles' = flushed.open
           /\ Return([op |-> "drop", ok |-> TRUE, err |-> "None", rc |-> 0,
                      value |-> ESYS_TR_NONE],
                     drop_calls(flushed.calls))
    /\ phase' = "dropped"
    /\ esys_context' = "None"
    /\ tcti_context' = "None"
    /\ esys_res' = "finalized"
    /\ tcti_res' = "finalized"
    /\ UNCHANGED sessions

----------------------------------------------------------------------------
Next ==
    \/ new
    \/ start_auth_session
    \/ set_sessions
    \/ get_sessions
    \/ create_primary_key
    \/ create_key
    \/ load
    \/ sign
    \/ verify_signature
    \/ load_external
    \/ load_external_public
    \/ read_public
    \/ flush_context
    \/ context_save
    \/ context_load
    \/ pcr_read
    \/ quote
    \/ policy_pcr
    \/ get_random
    \/ test_parms
    \/ hash
    \/ policy_get_digest
    \/ tr_set_auth
    \/ tr_get_name
    \/ tr_sess_set_attributes
    \/ tr_sess_get_attributes
    \/ drop

Spec == Init /\ [][Next]_vars

----------------------------------------------------------------------------
\* Properties.

\* wrap_buffer! applied on its own to every slice and capacity of
\* MarshalInputs and MarshalCapacities.
MarshalInit ==
    /\ NoContext
    /\ \E buf \in MarshalInputs, buf_size \in MarshalCapacities :
         marshalled = [buf |-> buf, buf_size |-> buf_size, state |-> "given",
                       buf_struct |-> <<>>]

wrap ==
    /\ marshalled.state = "given"
    /\ marshalled' =
         IF wrap_buffer_fails(marshalled.buf, marshalled.buf_size)
         THEN [marshalled EXCEPT !.state = "WrongParamSize"]
         ELSE [marshalled EXCEPT
                  !.state = "wrapped",
                  !.buf_struct = wrap_buffer(marshalled.buf,
                                             marshalled.buf_size)]
    /\ UNCHANGED <<lifecycle, sessions, open_handles, calls, result, issued,
                   pattern, input, last_set, finalized, buffers,
                   reinserted, in_progress>>

MarshalNext == wrap

MarshalSpec == MarshalInit /\ [][MarshalNext]_vars

----------------------------------------------------------------------------
\* Client threads calling methods of one Context that new has returned.
\* What a method does to the Context is the subject of Spec, where it is one
\* step; here a call is split into its entry, its foreign call and its
\* return.
begin(t, op) ==
    /\ phase = "live"
    /\ in_progress[t] = Idle
    /\ CanBorrow(t, op)
    /\ in_progress' = [in_progress EXCEPT ![t] = [op |-> op, at |-> "entered"]]
    /\ UNCHANGED <<lifecycle, sessions, open_handles, calls, result, issued,
                   pattern, input, last_set, finalized, buffers,
                   reinserted, marshalled>>

foreign_call(t) ==
    /\ in_progress[t].at = "entered"
    /\ in_progress[t].op \notin Accessors
    /\ in_progress' = [in_progress EXCEPT ![t].at = "in_engine"]
    /\ UNCHANGED <<lifecycle, sessions, open_handles, calls, result, issued,
                   pattern, input, last_set, finalized, buffers,
                   reinserted, marshalled>>

\* The method returns: after its foreign call, or before it when an
\* argument is rejected or the method makes none.
return(t) ==
    /\ in_progress[t] # Idle
    /\ in_progress' = [in_progress EXCEPT ![t] = Idle]
    /\ UNCHANGED <<lifecycle, sessions, open_handles, calls, result, issued,
                   pattern, input, last_set, finalized, buffers,
                   reinserted, marshalled>>

SharedNext ==
    \/ new
    \/ \E t \in Threads, op \in Methods : begin(t, op)
    \/ \E t \in Threads : foreign_call(t)
    \/ \E t \in Threads : return(t)

SharedSpec == Init /\ [][SharedNext]_vars

----------------------------------------------------------------------------
\* C1: a command that returns an error leaves open_handles and sessions as
\* they were before the call, whether the error is a local WrongParamSize, a
\* non-success status of the engine or a conversion error after a
\* successful engine call.
C1_FailedCommandKeepsState ==
    [][(phase' = "live" /\ ~result'.ok)
          => (open_handles' = open_handles /\ sessions' = sessions)]_vars

\* A conversion error after a successful Esys_Sign, with a handle open and a
\* session set.
C1_Witness ==
    /\ phase = "live"
    /\ result.op = "sign" /\ result.err = "Conversion"
    /\ Len(calls) = 1 /\ calls[1].rc = 0
    /\ open_handles # {}
    /\ sessions[1] # ESYS_TR_NONE

\* C2: every handle in open_handles of a live Context was returned by a
\* successful allocating call on it and has not since been the argument of
\* a successful flush_context.
C2_RegistryInvariant ==
    phase = "live" => open_handles \subseteq issued

\* Handles 1 and 2 were returned and handle 2 has been flushed since.
C2_Witness ==
    /\ phase = "live"
    /\ pattern = "flushing"
    /\ result.op = "flush_context" /\ result.ok
    /\ calls[1].handle = 2
    /\ open_handles = {1}
    /\ issued = {1}

\* C3: when an allocating call returns Ok(h), h is in open_handles right
\* after it and every handle that was in the set before is still in it.
C3_AllocationRegisters ==
    [][(result'.ok /\ result'.op \in AllocOps)
          => (result'.value \in open_handles'
              /\ open_handles \subseteq open_handles')]_vars

\* context_load returned a handle while another one was open.
C3_Witness ==
    /\ result.op = "context_load" /\ result.ok
    /\ result.value \in open_handles
    /\ Cardinality(open_handles) = 2

\* C4: a flush_context(h) that succeeds removes h from open_handles and
\* nothing else; one that fails leaves the set as it was.
C4_FlushReleasesExactlyOne ==
    [][(phase' = "live" /\ result'.op = "flush_context")
          => IF result'.ok
             THEN open_handles' = open_handles \ {calls'[1].handle}
             ELSE open_handles' = open_handles]_vars

\* A successful flush of handle 1 that left handle 2 open.
C4_Witness ==
    /\ phase = "live"
    /\ result.op = "flush_context" /\ result.ok
    /\ calls[1].handle = 1
    /\ open_handles = {2}

\* C5: after successful allocating calls on a fresh Context followed by a
\* successful explicit flush_context of each handle they returned,
\* open_handles is empty.
C5_AllFlushedLeavesNoneOpen ==
    (phase = "live" /\ pattern \in {"fresh", "allocating", "flushing"}
        /\ issued = {})
       => open_handles = {}

\* The last of the returned handles has just been flushed.
C5_Witness ==
    /\ phase = "live"
    /\ pattern = "flushing"
    /\ issued = {}
    /\ result.op = "flush_context" /\ result.ok
    /\ open_handles = {}

\* C6: teardown makes exactly one flush attempt for each handle that was
\* open when it began and none for any other handle, then finalizes both
\* resources and completes without an error, whatever the flushes returned.
C6_TeardownFlushesEachOnce ==
    [][phase' = "dropped"
          => /\ \A h \in open_handles :
                   Cardinality({i \in CallsTo(calls', "Esys_FlushContext") :
                                  calls'[i].handle = h}) = 1
             /\ \A i \in CallsTo(calls', "Esys_FlushContext") :
                   calls'[i].handle \in open_handles
             /\ CallsTo(calls', "Esys_Finalize") # {}
             /\ CallsTo(calls', "Tss2_TctiLdr_Finalize") # {}
             /\ result'.op = "drop" /\ result'.ok]_vars

\* A teardown with two handles open whose first flush failed and whose
\* second succeeded, followed by the finalizers.
C6_Witness ==
    /\ phase = "dropped"
    /\ Len(calls) = 4
    /\ calls[1].fn = "Esys_FlushContext" /\ calls[1].rc # 0
    /\ calls[2].fn = "Esys_FlushContext" /\ calls[2].rc = 0
    /\ calls[1].handle # calls[2].handle
    /\ open_handles = {calls[1].handle}

\* C7: teardown finalizes the engine resource before the transport
\* resource, the reverse of the order in which new initialized them.
C7_EngineFinalizedBeforeTransport ==
    phase = "dropped"
       => \E i \in CallsTo(calls, "Esys_Finalize") :
             \A j \in CallsTo(calls, "Tss2_TctiLdr_Finalize") : i < j

\* C8: teardown calls Tss2_TctiLdr_Finalize and only then Esys_Finalize:
\* transport first, engine second, the order in which new initialized them.
C8_TransportFinalizedBeforeEngine ==
    /\ phase = "dropped"
          => /\ CallsTo(calls, "Tss2_TctiLdr_Finalize") # {}
             /\ CallsTo(calls, "Esys_Finalize") # {}
             /\ \A i \in CallsTo(calls, "Tss2_TctiLdr_Finalize") :
                   \A j \in CallsTo(calls, "Esys_Finalize") : i < j
    /\ result.op = "new"
          => \A i \in CallsTo(calls, "Tss2_TctiLdr_Initialize") :
                \A j \in CallsTo(calls, "Esys_Initialize") : i < j

\* A Context torn down with a handle open.
C8_Witness ==
    /\ phase = "dropped"
    /\ Len(calls) = 3
    /\ calls[2].fn = "Tss2_TctiLdr_Finalize"
    /\ calls[3].fn = "Esys_Finalize"

\* C9: when Esys_Initialize fails after Tss2_TctiLdr_Initialize succeeded,
\* the transport resource is finalized before new returns the error.
C9_TransportFinalizedWhenEngineInitFails ==
    (result.op = "new" /\ ~result.ok
        /\ CallsTo(calls, "Esys_Initialize") # {})
       => /\ CallsTo(calls, "Tss2_TctiLdr_Finalize") # {}
          /\ tcti_res = "finalized"

\* C10: a Context created and dropped with no command issued has its
\* transport resource finalized exactly once, its engine resource
\* finalized exactly once, and no flush attempted.
C10_ImmediateTeardown ==
    /\ (phase = "dropped" /\ pattern = "fresh")
          => /\ Cardinality(CallsTo(calls, "Tss2_TctiLdr_Finalize")) = 1
             /\ Cardinality(CallsTo(calls, "Esys_Finalize")) = 1
             /\ CallsTo(calls, "Esys_FlushContext") = {}
    /\ (phase = "live" /\ pattern = "fresh")
          => /\ CallsTo(calls, "Tss2_TctiLdr_Finalize") = {}
             /\ CallsTo(calls, "Esys_Finalize") = {}
             /\ CallsTo(calls, "Esys_FlushContext") = {}

\* A Context dropped right after its creation.
C10_Witness ==
    /\ phase = "dropped"
    /\ pattern = "fresh"
    /\ tcti_res = "finalized" /\ esys_res = "finalized"

\* C11: whatever commands were issued on a Context and however many handles
\* remain open, its teardown finalizes the engine resource exactly once and
\* the transport resource exactly once; before teardown neither has been
\* finalized, and nothing finalizes either again afterwards.
C11_FinalizedExactlyOnce ==
    /\ phase = "live"
          => finalized["Esys_Finalize"] = 0
             /\ finalized["Tss2_TctiLdr_Finalize"] = 0
    /\ phase = "dropped"
          => finalized["Esys_Finalize"] = 1
             /\ finalized["Tss2_TctiLdr_Finalize"] = 1

\* A Context torn down after successful and failed commands, with a handle
\* left open because its flush failed.
C11_Witness ==
    /\ phase = "dropped"
    /\ pattern = "other"
    /\ open_handles # {}
    /\ finalized["Esys_Finalize"] = 1
    /\ finalized["Tss2_TctiLdr_Finalize"] = 1

\* The entry points that create or destroy the two resources; every other
\* foreign call is a command sent to the engine.
LifecycleCalls == {"Tss2_TctiLdr_Initialize", "Esys_Initialize"} \cup Finalizers

\* C12: every foreign command call, the flush attempts of teardown included,
\* is made while the engine resource is live: Esys_Initialize has succeeded,
\* mut_context finds esys_context non-empty, and neither finalizer has yet
\* been called.
C12_CommandsWhileEngineLive ==
    [][\A i \in 1..Len(calls') :
          calls'[i].fn \notin LifecycleCalls
             => /\ phase = "live"
                /\ esys_res = "live"
                /\ esys_context = "Some"
                /\ calls'[i].ctx = "esys_ptr"
                /\ finalized["Esys_Finalize"] = 0
                /\ finalized["Tss2_TctiLdr_Finalize"] = 0
                /\ \A j \in 1..i : calls'[j].fn \notin Finalizers]_vars

\* A teardown that flushed two open handles, both through the live ESYS
\* context, before the finalizers ran.
C12_Witness ==
    /\ phase = "dropped"
    /\ Len(calls) = 4
    /\ calls[1].fn = "Esys_FlushContext" /\ calls[1].ctx = "esys_ptr"
    /\ calls[2].fn = "Esys_FlushContext" /\ calls[2].ctx = "esys_ptr"
    /\ calls[1].rc = 0 /\ calls[2].rc = 0
    /\ calls[3].fn \in Finalizers /\ calls[4].fn \in Finalizers
    /\ open_handles = {}

\* A result that reports an argument rejected by the wrapper itself: a slice
\* longer than its field, a count that does not fit its integer, or the
\* saved context that context_load cannot convert to the native structure.
LocalValidationError(res) ==
    \/ res.err = "WrongParamSize"
    \/ res.op = "context_load" /\ res.err = "Conversion"

\* C13: a command that returns a local validation error has called no engine
\* entry point and has changed nothing: the registry, the session tuple and
\* both resources are as they were before it.
C13_ValidationShortCircuits ==
    [][LocalValidationError(result')
          => /\ calls' = <<>>
             /\ UNCHANGED <<lifecycle, sessions, open_handles, issued,
                            finalized>>]_vars

\* tr_set_auth rejects a 65-byte auth_value on a Context that holds open
\* handles and a session.
C13_Witness ==
    /\ phase = "live"
    /\ result.op = "tr_set_auth" /\ result.err = "WrongParamSize"
    /\ input = <<AUTH_SIZE + 1>>
    /\ calls = <<>>
    /\ Cardinality(open_handles) = 2
    /\ sessions[2] # ESYS_TR_NONE

\* The capacity of each marshaled byte field, by the method that takes it, in
\* the order of its entries in input: nonce; auth_value, initial_data
\* (sensitive data) and outside_info; digest; qualifying_data; the hash
\* input buffer.
FieldCapacity ==
    [start_auth_session |-> <<64>>,
     create_primary_key |-> <<64, 256, 64>>,
     create_key         |-> <<64, 256, 64>>,
     sign               |-> <<64>>,
     verify_signature   |-> <<64>>,
     quote              |-> <<64>>,
     policy_pcr         |-> <<64>>,
     tr_set_auth        |-> <<64>>,
     hash               |-> <<1024>>]

\* The byte fields among a method's sizes that are longer than their capacity.
Oversized(op, in) ==
    {i \in 1..Len(FieldCapacity[op]) : in[i] > FieldCapacity[op][i]}

\* C14: a method given a byte sequence longer than the capacity of its field
\* (64 for nonces, authorization values, outside-info/qualifying data and
\* digests, 256 for sensitive data, 1024 for the hash input) fails with
\* WrongParamSize; a sequence is never truncated: every size the engine is
\* given is the length of the caller's sequence.
C14_OversizeRejectedNeverTruncated ==
    result.op \in DOMAIN FieldCapacity
       => /\ Oversized(result.op, input) # {}
               => result.err = "WrongParamSize" /\ calls = <<>>
          /\ \A c \in 1..Len(calls) :
               \/ calls[c].sizes = input
               \/ /\ result.op = "start_auth_session"  \* no nonce: null
                  /\ input = <<0>> /\ calls[c].sizes = <<>>

\* hash accepts a buffer of exactly 1024 bytes and hands all of it to the
\* engine.
C14_Witness ==
    /\ result.op = "hash" /\ result.ok
    /\ input = <<1024>>
    /\ Len(calls) = 1 /\ calls[1].sizes = <<1024>>

\* The logical content of a marshaled record: buffer[0..size).
Content(buf_struct) ==
    [i \in 1..buf_struct.size |-> buf_struct.buffer[i]]

\* C15: for every byte sequence b no longer than the capacity N, the empty
\* one and one of exactly N bytes included, marshaling b into a capacity-N
\* record succeeds, and buffer[0..size) of the record is exactly b.
C15_MarshalRoundTrip ==
    (marshalled.state \in {"wrapped", "WrongParamSize"}
        /\ Len(marshalled.buf) <= marshalled.buf_size)
       => /\ marshalled.state = "wrapped"
          /\ marshalled.buf_struct.size = Len(marshalled.buf)
          /\ DOMAIN marshalled.buf_struct.buffer = 1..marshalled.buf_size
          /\ Content(marshalled.buf_struct) = marshalled.buf

\* A slice ending in a zero byte that fills a capacity-2 record exactly.
C15_Witness ==
    /\ marshalled.state = "wrapped"
    /\ marshalled.buf = <<255, 0>>
    /\ marshalled.buf_size = 2
    /\ Content(marshalled.buf_struct) = <<255, 0>>

\* C16: create_primary_key returns WrongParamSize, calls nothing and
\* registers no handle when auth_value is longer than 64, initial_data
\* longer than 256, outside_info longer than 64 or creation_pcrs longer than
\* 16 entries; with every input within its limit it calls the engine once,
\* and if the engine succeeds it returns a handle that is then in
\* open_handles.
C16_CreatePrimaryKeyLimits ==
    [][result'.op = "create_primary_key"
          => IF \/ input'[1] > 64 \/ input'[2] > 256
                \/ input'[3] > 64 \/ input'[4] > 16
             THEN /\ result'.err = "WrongParamSize"
                  /\ calls' = <<>>
                  /\ open_handles' = open_handles
             ELSE /\ Len(calls') = 1
                  /\ calls'[1].fn = "Esys_CreatePrimary"
                  /\ is_success(calls'[1].rc)
                       => /\ result'.ok
                          /\ result'.value \in Handles
                          /\ result'.value \in open_handles']_vars

\* create_primary_key with an empty auth_value and exactly 16 creation_pcrs
\* succeeds, and the handle it returns is registered.
C16_Witness ==
    /\ result.op = "create_primary_key" /\ result.ok
    /\ input = <<0, 0, 0, 16>>
    /\ result.value \in open_handles

\* C17: get_random(num_bytes) fails with WrongParamSize and calls nothing
\* when num_bytes is greater than 65535, the largest 16-bit count; for every
\* num_bytes up to 65535 the local check passes and Esys_GetRandom is called
\* with exactly that count.
C17_GetRandomCount ==
    result.op = "get_random"
       => IF input[1] > 65535
          THEN result.err = "WrongParamSize" /\ calls = <<>>
          ELSE /\ result.err # "WrongParamSize"
               /\ Len(calls) = 1
               /\ calls[1].fn = "Esys_GetRandom"
               /\ calls[1].sizes = <<input[1]>>

\* get_random(65535) reaches the engine with the count 65535.
C17_Witness ==
    /\ result.op = "get_random"
    /\ input = <<65535>>
    /\ Len(calls) = 1 /\ calls[1].sizes = <<65535>>

\* C18: set_sessions(t) stores t in all three slots whatever the tuple was
\* before and changes nothing else; sessions() returns the stored tuple, so
\* read right after set_sessions(t) it returns exactly t; and a second
\* set_sessions(t) leaves the state as the first one left it.
C18_SetSessionsAtomicIdempotent ==
    [][/\ result'.op = "set_sessions"
            => /\ sessions' = input'
               /\ UNCHANGED <<lifecycle, open_handles>>
       /\ result'.op = "sessions"
            => /\ result'.value = sessions
               /\ UNCHANGED <<lifecycle, sessions, open_handles>>
       /\ (result.op = "set_sessions" /\ result'.op = "sessions")
            => result'.value = input
       /\ (result.op = "set_sessions" /\ result'.op = "set_sessions"
              /\ input' = input)
            => UNCHANGED <<lifecycle, sessions, open_handles>>]_vars

\* sessions() returns a tuple that set_sessions stored over one that
\* differed from it in every slot.
C18_Witness ==
    /\ result.op = "sessions"
    /\ result.value = <<1, 1, 1>>
    /\ last_set = <<1, 1, 1>>
    /\ sessions = <<1, 1, 1>>

\* The methods that take sessions, each with the entry point it calls.
SessionCommands ==
    [start_auth_session   |-> "Esys_StartAuthSession",
     create_primary_key   |-> "Esys_CreatePrimary",
     create_key           |-> "Esys_Create",
     load                 |-> "Esys_Load",
     sign                 |-> "Esys_Sign",
     verify_signature     |-> "Esys_VerifySignature",
     load_external        |-> "Esys_LoadExternal",
     load_external_public |-> "Esys_LoadExternal",
     read_public          |-> "Esys_ReadPublic",
     pcr_read             |-> "Esys_PCR_Read",
     quote                |-> "Esys_Quote",
     policy_pcr           |-> "Esys_PolicyPCR",
     get_random           |-> "Esys_GetRandom",
     test_parms           |-> "Esys_TestParms",
     hash                 |-> "Esys_Hash",
     policy_get_digest    |-> "Esys_PolicyGetDigest"]

\* C19: every command that takes sessions hands the foreign call the three
\* handles stored in the Context, each in its own slot: the triple last
\* given to set_sessions, or (NONE, NONE, NONE) if there was none.
C19_SessionsPassedInSlotOrder ==
    /\ (result.op \in DOMAIN SessionCommands /\ calls # <<>>)
          => /\ Len(calls) = 1
             /\ calls[1].fn = SessionCommands[result.op]
    /\ \A i \in 1..Len(calls) :
          (\E op \in DOMAIN SessionCommands :
              calls[i].fn = SessionCommands[op])
             => /\ calls[i].sessions = last_set
                /\ calls[i].sessions = sessions

\* sign passes on a triple, set earlier, whose slots differ from one another.
C19_Witness ==
    /\ result.op = "sign"
    /\ Len(calls) = 1
    /\ calls[1].sessions = <<1, ESYS_TR_NONE, ESYS_TR_NONE>>
    /\ last_set = <<1, ESYS_TR_NONE, ESYS_TR_NONE>>

\* C20: the Context a successful new returns has the session tuple
\* (NONE, NONE, NONE) and no open handle, and holds both the engine
\* resource and the transport resource, each initialized and live.
C20_StateAfterNew ==
    (result.op = "new" /\ result.ok)
       => /\ phase = "live"
          /\ sessions = <<ESYS_TR_NONE, ESYS_TR_NONE, ESYS_TR_NONE>>
          /\ open_handles = {}
          /\ esys_context = "Some" /\ esys_res = "live"
          /\ tcti_context = "Some" /\ tcti_res = "live"
          /\ finalized["Esys_Finalize"] = 0
          /\ finalized["Tss2_TctiLdr_Finalize"] = 0

\* new has just returned Ok, both initializers having succeeded.
C20_Witness ==
    /\ result.op = "new" /\ result.ok
    /\ Len(calls) = 2
    /\ calls[1].fn = "Tss2_TctiLdr_Initialize" /\ calls[1].rc = 0
    /\ calls[2].fn = "Esys_Initialize" /\ calls[2].rc = 0
    /\ phase = "live"

\* C21: when Tss2_TctiLdr_Initialize fails, new returns the error that
\* carries its status, no Context exists, Esys_Initialize is never called,
\* and no finalizer and no teardown follows.
C21_TransportInitFailure ==
    /\ (result.op = "new" /\ calls # <<>> /\ ~is_success(calls[1].rc))
          => /\ calls[1].fn = "Tss2_TctiLdr_Initialize"
             /\ Len(calls) = 1
             /\ ~result.ok
             /\ result.err = "Tss2ResponseCode"
             /\ result.rc = calls[1].rc
             /\ phase = "new_failed"
             /\ esys_context = "None" /\ tcti_context = "None"
             /\ esys_res = "uninit" /\ tcti_res = "uninit"
    /\ phase = "new_failed"
          => /\ result.op = "new"
             /\ finalized["Esys_Finalize"] = 0
             /\ finalized["Tss2_TctiLdr_Finalize"] = 0

\* new has returned the error of a failed Tss2_TctiLdr_Initialize.
C21_Witness ==
    /\ phase = "new_failed"
    /\ result.op = "new" /\ result.err = "Tss2ResponseCode"
    /\ Len(calls) = 1
    /\ calls[1].fn = "Tss2_TctiLdr_Initialize" /\ calls[1].rc = 2
    /\ result.rc = 2

\* The operations that are no command of the engine: construction, teardown
\* and the accessors of the session tuple.
NotCommands == {"none", "new", "drop", "set_sessions", "sessions"}

\* C22: a command returns Ok only if its foreign call returned the success
\* status; when the call returns any other status the command returns the
\* error that carries that status, takes no output of the engine and leaves
\* open_handles as it was.
C22_SuccessOnlyOnSuccessStatus ==
    [][(phase' = "live" /\ result'.op \notin NotCommands)
          => /\ result'.ok
                  => Len(calls') = 1 /\ is_success(calls'[1].rc)
             /\ (calls' # <<>> /\ ~is_success(calls'[1].rc))
                  => /\ Len(calls') = 1
                     /\ ~result'.ok
                     /\ result'.err = "Tss2ResponseCode"
                     /\ result'.rc = calls'[1].rc
                     /\ result'.value = ESYS_TR_NONE
                     /\ buffers'.owned = <<>>
                     /\ open_handles' = open_handles]_vars

\* load fails with the status 2 of Esys_Load while two handles are open.
C22_Witness ==
    /\ phase = "live"
    /\ result.op = "load" /\ result.err = "Tss2ResponseCode"
    /\ result.rc = 2
    /\ Len(calls) = 1 /\ calls[1].rc = 2
    /\ Cardinality(open_handles) = 2

\* How often the buffer `b` occurs in a sequence of buffers.
Count(bs, b) == Cardinality({i \in 1..Len(bs) : bs[i] = b})

BuffersOf(bs) == {bs[i] : i \in 1..Len(bs)}

\* C23: every output buffer the engine allocated in a successful foreign
\* call is taken into an MBox exactly once and freed exactly once before
\* the command returns, whether it returns Ok or a conversion error; nothing
\* else is taken or freed, so that no engine-owned buffer is outstanding
\* once a command has returned.
C23_OutputBuffersOwnedAndReleasedOnce ==
    /\ \A b \in BuffersOf(buffers.allocated) \cup BuffersOf(buffers.owned)
                                              \cup BuffersOf(buffers.freed) :
          /\ Count(buffers.allocated, b) = 1
          /\ Count(buffers.owned, b) = 1
          /\ Count(buffers.freed, b) = 1
    /\ (calls # <<>> /\ is_success(calls[1].rc))
          => buffers.allocated = out_params(calls[1].fn)

\* quote fails to convert the signature after a successful Esys_Quote: both
\* buffers of the engine have been taken and freed.
C23_Witness ==
    /\ result.op = "quote" /\ result.err = "Conversion"
    /\ buffers.allocated = <<"quoted", "signature">>
    /\ BuffersOf(buffers.freed) = {"quoted", "signature"}

\* The commands: every method but the read accessor sessions().
InCommand(t) == in_progress[t].op \in Methods \ {"sessions"}

\* C24: for any number of client threads, no two commands are in progress
\* on the same Context at the same time: while a thread is inside a command,
\* every other thread is outside every method of that Context.
C24_CommandsNeverOverlap ==
    \A t \in Threads :
       InCommand(t) => \A u \in Threads \ {t} : in_progress[u] = Idle

\* One thread is inside Esys_Sign, the others wait outside.
C24_Witness ==
    /\ phase = "live"
    /\ in_progress[2] = [op |-> "sign", at |-> "in_engine"]
    /\ in_progress[1] = Idle
    /\ in_progress[3] = Idle

\* C25: while the Context lives, a handle leaves open_handles only by a
\* successful flush_context of that very handle; a context_save, successful
\* or not, leaves the handle it saves in the set.
C25_NoAutoRelease ==
    [][phase' = "live"
          => /\ \A h \in open_handles \ open_handles' :
                  /\ result'.op = "flush_context" /\ result'.ok
                  /\ calls'[1].fn = "Esys_FlushContext"
                  /\ calls'[1].handle = h
             /\ result'.op = "context_save"
                  => open_handles' = open_handles]_vars

\* A successful context_save of an open handle, which is still open.
C25_Witness ==
    /\ phase = "live"
    /\ result.op = "context_save" /\ result.ok
    /\ calls[1].handle = 2
    /\ open_handles = {1, 2}

\* C26: the session tuple is changed by set_sessions only (new creates it):
\* every other operation leaves it as it was; a successful
\* start_auth_session registers the new session handle in open_handles and
\* does not put it into the tuple.
C26_SessionsChangedBySetOnly ==
    [][/\ result'.op \notin {"new", "set_sessions"} => sessions' = sessions
       /\ (result'.op = "start_auth_session" /\ result'.ok)
            => /\ result'.value \in open_handles'
               /\ sessions' = sessions]_vars

\* start_auth_session has returned the session handle 1, now registered,
\* while the session tuple still holds no session.
C26_Witness ==
    /\ result.op = "start_auth_session" /\ result.ok
    /\ result.value = 1
    /\ 1 \in open_handles
    /\ sessions = <<ESYS_TR_NONE, ESYS_TR_NONE, ESYS_TR_NONE>>

\* The methods that return no new handle.
NonAllocatingOps ==
    {"create_key", "sign", "verify_signature", "read_public", "pcr_read",
     "quote", "policy_pcr", "get_random", "test_parms", "hash",
     "policy_get_digest", "tr_set_auth", "tr_get_name",
     "tr_sess_set_attributes", "tr_sess_get_attributes", "set_sessions"}

\* C27: a command that returns no new handle leaves open_handles as it was,
\* whether it succeeds or fails; a successful create_key registers nothing.
C27_NonAllocatingKeepsRegistry ==
    [][result'.op \in NonAllocatingOps
          => open_handles' = open_handles]_vars

\* create_key has succeeded on a parent handle that is not registered, and
\* the registry holds what it held.
C27_Witness ==
    /\ result.op = "create_key" /\ result.ok
    /\ Len(calls) = 1 /\ calls[1].handle = 1
    /\ open_handles = {2}

\* C28: when a successful allocating call returns a handle that is already
\* in open_handles, the set stays as it was; at a teardown that follows,
\* that handle gets exactly one flush attempt, and a single successful
\* flush_context of it removes it from the set.
C28_IdempotentInsert ==
    [][/\ reinserted'
            => /\ result'.value \in open_handles
               /\ open_handles' = open_handles
       /\ (reinserted /\ phase' = "dropped")
            => Cardinality({i \in CallsTo(calls', "Esys_FlushContext") :
                               calls'[i].handle = result.value}) = 1
       /\ (reinserted /\ result'.op = "flush_context" /\ result'.ok
              /\ calls'[1].handle = result.value)
            => result.value \notin open_handles']_vars

\* load_external has returned the handle 1, which was open before the call.
C28_Witness ==
    /\ reinserted
    /\ result.op = "load_external" /\ result.ok
    /\ result.value = 1
    /\ open_handles = {1, 2}

\* C29: every marshaled record made for the engine has size equal to the
\* length of the caller's data and at most the capacity, holds the caller's
\* data in buffer[0..size), and holds zero in every byte from index size to
\* capacity - 1.
C29_MarshaledBufferInvariant ==
    marshalled.state = "wrapped"
       => LET buf_struct == marshalled.buf_struct
              capacity == marshalled.buf_size
          IN /\ buf_struct.size = Len(marshalled.buf)
             /\ buf_struct.size <= capacity
             /\ DOMAIN buf_struct.buffer = 1..capacity
             /\ \A i \in 1..buf_struct.size :
                   buf_struct.buffer[i] = marshalled.buf[i]
             /\ \A i \in (buf_struct.size + 1)..capacity :
                   buf_struct.buffer[i] = 0

\* A one-byte slice in a capacity-64 record: 63 bytes of padding.
C29_Witness ==
    /\ marshalled.state = "wrapped"
    /\ marshalled.buf = <<255>>
    /\ marshalled.buf_size = 64
    /\ marshalled.buf_struct.size = 1
    /\ marshalled.buf_struct.buffer[1] = 255
    /\ marshalled.buf_struct.buffer[64] = 0
====
